---- MODULE Spec2Model ----
(***************************************************************************)
(* ConversationManager of src/src/MultiAgentConversation.py: construction  *)
(* (LLM configuration, loading of the agent registry from the YAML         *)
(* document), initiate_conversation under the backoff.on_exception         *)
(* decorator, and get_last_topic.  The agent library (ConversableAgent,    *)
(* initiate_chat), the environment and the file system are the             *)
(* environment of the model: their outcomes are nondeterministic choices.  *)
(***************************************************************************)
EXTENDS Integers, Sequences, FiniteSets, TLC

(***************************************************************************)
(* Bounds of the model and program constants.                              *)
(***************************************************************************)
\* longest agents list of a configuration document
MaxAgents == 2
\* a call is started only while the topic log can still take a whole call
MaxLog == 4
\* longest topic log of the lookup specification
MaxHist == 2

\* backoff.on_exception(..., max_tries=3)
max_tries == 3
\* "max_tokens": 50
max_tokens == 50
\* max_turns: int = 2
default_max_turns == 2

\* Optional[...] values: None is the empty tuple, a value v is <<v>>.
None == << >>
Some(v) == << v >>

AgentNames == {"Ptolmey", "Aryabhata"}
Names == AgentNames \cup {"InvalidAgent"}
Messages == {"Discovery", "Follow-up"}
SystemMessages == {"You are Ptolemy."}
Paths == {"config.yaml", "nonexistent.yaml"}
ApiKeys == {None, Some("test_gemini_key")}

(***************************************************************************)
(* The configuration resource.  yaml.safe_load gives a mapping (with or    *)
(* without the agents key), None for an empty document, or raises.         *)
(***************************************************************************)
RECURSIVE SeqsUpTo(_, _)
SeqsUpTo(S, n) ==
  IF n = 0 THEN {<< >>}
  ELSE LET shorter == SeqsUpTo(S, n - 1)
       IN  shorter \cup {Append(s, x) : s \in {t \in shorter : Len(t) = n - 1}, x \in S}

AgentConfigs == [name : AgentNames, system_message : SystemMessages]

MissingFile == [kind |-> "missing", has_agents |-> FALSE, agents |-> << >>]
InvalidFile == [kind |-> "invalid", has_agents |-> FALSE, agents |-> << >>]
EmptyFile   == [kind |-> "empty",   has_agents |-> FALSE, agents |-> << >>]
NoAgentsKey == [kind |-> "doc",     has_agents |-> FALSE, agents |-> << >>]
Documents ==
  {NoAgentsKey} \cup
  {[kind |-> "doc", has_agents |-> TRUE, agents |-> s] : s \in SeqsUpTo(AgentConfigs, MaxAgents)}
Files == {MissingFile, InvalidFile, EmptyFile} \cup Documents

(***************************************************************************)
(* Exceptions and results.                                                 *)
(***************************************************************************)
Exc(type, msg, id) == [type |-> type, msg |-> msg, id |-> id]
NoExc == Exc("", << >>, 0)
\* the exception object raised by the n-th invocation of initiate_chat
RemoteError(n) == Exc("Exception", <<"remote exchange failed">>, n)

NoOutcome == [kind |-> "none", result |-> None, exc |-> NoExc]
Returned(r) == [kind |-> "returned", result |-> r, exc |-> NoExc]
Raised(e) == [kind |-> "raised", result |-> None, exc |-> e]

NoCall == [initiator_name |-> "", recipient_name |-> "", initial_message |-> "",
           max_turns |-> 0]

VARIABLES
  env_key,        \* os.getenv("GEMINI_API_KEY"): None or the key
  config_path,    \* self.config_path
  file,           \* the resource at config_path
  pc,             \* position of the program
  llm_config,     \* self.llm_config (None until _configure_llm returned)
  agents,         \* self.agents: function from names to handles
  topic_history,  \* self.topic_history
  pending,        \* agent definitions the loop of _load_agents has not visited
  created,        \* ConversableAgent(...) calls so far (mock call_count)
  file_read,      \* open(config_path) has been called
  ctor_exc,       \* the exception that ended construction, or NoExc
  call,           \* arguments of the current / last initiate_conversation
  tries,          \* backoff's tries counter of the current / last call
  checks,         \* evaluations of the name condition in the current / last call
  slept,          \* time.sleep calls of backoff in the current / last call
  caught,         \* the exception backoff caught in the current attempt
  result,         \* the local variable result
  log_start,      \* topic_history as it was when the current / last call began
  chat_start,     \* Len(chat_log) when the current / last call began
  chat_log,       \* arguments of every initiate_chat invocation (mock call list)
  chat_outcomes,  \* per invocation of the current / last call: "ok" or "fail"
  outcome,        \* how the last initiate_conversation ended
  lookup,         \* last get_last_topic call: None or <<[name, value]>>
  clock           \* readings of time.time() so far

vars == <<env_key, config_path, file, pc, llm_config, agents, topic_history,
          pending, created, file_read, ctor_exc, call, tries, checks, slept,
          caught, result, log_start, chat_start, chat_log, chat_outcomes,
          outcome, lookup, clock>>

envVars == <<env_key, config_path, file>>
ctorVars == <<llm_config, agents, pending, created, file_read, ctor_exc>>
callVars == <<call, tries, checks, slept, caught, result, log_start, chat_start,
              chat_log, chat_outcomes, outcome>>

(***************************************************************************)
(* Pure helpers, computed as the code computes them.                       *)
(***************************************************************************)
\* utils: def get_gemini_api_key(): return os.getenv("GEMINI_API_KEY")
get_gemini_api_key(env) == env

\* the dictionary _configure_llm returns
LlmConfig(api_key) ==
  [model |-> "gemini-1.5-flash", api_key |-> api_key, api_type |-> "google",
   max_tokens |-> max_tokens]

\* f"Configuration file {self.config_path} not found"
\* faulty variant: the message names the default path, not config_path
FileNotFoundMessage_Fixed(path) == <<"Configuration file ", "config.yaml", " not found">>
FileNotFoundMessage(path) == <<"Configuration file ", path, " not found">>

\* f"Error parsing {self.config_path}: {e}"
YamlErrorMessage(path) == <<"Error parsing ", path, ": ", "Invalid YAML">>

\* config.get('agents', [])
ConfigGetAgents(doc) == IF doc.has_agents THEN doc.agents ELSE << >>

\* ConversableAgent(name=..., system_message=..., llm_config=..., ...)
ConversableAgent(name, system_message, cfg) ==
  [name |-> name, system_message |-> system_message, llm_config |-> cfg,
   human_input_mode |-> "NEVER", is_termination_msg |-> "See you again later"]

\* self.agents[name] = handle
\* faulty variant: only the first handle is ever stored
RegistryPut_KeepFirst(reg, name, handle) ==
  IF DOMAIN reg = {} THEN (name :> handle) ELSE reg
RegistryPut(reg, name, handle) ==
  [n \in DOMAIN reg \cup {name} |-> IF n = name THEN handle ELSE reg[n]]

\* initiator_name not in self.agents or recipient_name not in self.agents
NameNotFound(reg, initiator_name, recipient_name) ==
  initiator_name \notin DOMAIN reg \/ recipient_name \notin DOMAIN reg

\* the dictionary appended to topic_history
TopicRecord(initiator_name, recipient_name, initial_message, now) ==
  [initiator |-> initiator_name, recipient |-> recipient_name,
   topic |-> initial_message, timestamp |-> now]

\* backoff: max_tries_exceeded = (tries == max_tries_value)
\* faulty variant: gives up one attempt late
MaxTriesExceeded_OffByOne(t) == t = max_tries + 1
MaxTriesExceeded(t) == t = max_tries

\* backoff.expo: the n-th wait is at most 2^(n-1) seconds (full jitter below it)
RECURSIVE Expo(_)
Expo(n) == IF n <= 1 THEN 1 ELSE 2 * Expo(n - 1)

\* get_last_topic: scan reversed(topic_history), return the first match's topic
RECURSIVE ScanForward(_, _, _)
ScanForward(h, i, agent_name) ==
  IF i > Len(h) THEN None
  ELSE IF h[i].initiator = agent_name \/ h[i].recipient = agent_name
       THEN Some(h[i].topic)
       ELSE ScanForward(h, i + 1, agent_name)
RECURSIVE ScanReversed(_, _, _)
ScanReversed(h, i, agent_name) ==
  IF i = 0 THEN None
  ELSE IF h[i].initiator = agent_name \/ h[i].recipient = agent_name
       THEN Some(h[i].topic)
       ELSE ScanReversed(h, i - 1, agent_name)

\* faulty variant: scans oldest-first
get_last_topic_First(h, agent_name) == ScanForward(h, 1, agent_name)
get_last_topic(h, agent_name) == ScanReversed(h, Len(h), agent_name)

(***************************************************************************)
(* Initial state: before ConversationManager(config_path) is called.       *)
(***************************************************************************)
Init ==
  /\ env_key \in ApiKeys
  /\ config_path \in Paths
  /\ file \in (IF config_path = "nonexistent.yaml" THEN {MissingFile} ELSE Files)
  /\ pc = "new"
  /\ llm_config = None
  /\ agents = << >>
  /\ topic_history = << >>
  /\ pending = << >>
  /\ created = 0
  /\ file_read = FALSE
  /\ ctor_exc = NoExc
  /\ call = NoCall
  /\ tries = 0
  /\ checks = 0
  /\ slept = << >>
  /\ caught = NoExc
  /\ result = None
  /\ log_start = << >>
  /\ chat_start = 0
  /\ chat_log = << >>
  /\ chat_outcomes = << >>
  /\ outcome = NoOutcome
  /\ lookup = None
  /\ clock = 0

(***************************************************************************)
(* Construction.                                                           *)
(***************************************************************************)
\* __init__, the three assignments before _configure_llm
Construct ==
  /\ pc = "new"
  /\ agents' = << >>
  /\ topic_history' = << >>
  /\ pc' = "configure_llm"
  /\ UNCHANGED <<envVars, llm_config, pending, created, file_read, ctor_exc,
                 callVars, lookup, clock>>

\* self.llm_config = self._configure_llm()
configure_llm ==
  /\ pc = "configure_llm"
  /\ llm_config' = Some(LlmConfig(get_gemini_api_key(env_key)))
  /\ pc' = "load_agents"
  /\ UNCHANGED <<envVars, agents, topic_history, pending, created, file_read,
                 ctor_exc, callVars, lookup, clock>>

\* _load_agents: open raises FileNotFoundError
load_agents_missing ==
  /\ pc = "load_agents"
  /\ file.kind = "missing"
  /\ file_read' = TRUE
  /\ ctor_exc' = Exc("FileNotFoundError", FileNotFoundMessage(config_path), 0)
  /\ pc' = "failed"
  /\ UNCHANGED <<envVars, llm_config, agents, topic_history, pending, created,
                 callVars, lookup, clock>>

\* _load_agents: yaml.safe_load raises yaml.YAMLError
load_agents_invalid ==
  /\ pc = "load_agents"
  /\ file.kind = "invalid"
  /\ file_read' = TRUE
  /\ ctor_exc' = Exc("YAMLError", YamlErrorMessage(config_path), 0)
  /\ pc' = "failed"
  /\ UNCHANGED <<envVars, llm_config, agents, topic_history, pending, created,
                 callVars, lookup, clock>>

\* _load_agents: yaml.safe_load returns None, config.get raises AttributeError
load_agents_empty ==
  /\ pc = "load_agents"
  /\ file.kind = "empty"
  /\ file_read' = TRUE
  /\ ctor_exc' = Exc("AttributeError", <<"'NoneType' object has no attribute 'get'">>, 0)
  /\ pc' = "failed"
  /\ UNCHANGED <<envVars, llm_config, agents, topic_history, pending, created,
                 callVars, lookup, clock>>

\* _load_agents: the document is parsed, the loop starts over config.get('agents', [])
load_agents_parsed ==
  /\ pc = "load_agents"
  /\ file.kind = "doc"
  /\ file_read' = TRUE
  /\ pending' = ConfigGetAgents(file)
  /\ pc' = "loop"
  /\ UNCHANGED <<envVars, llm_config, agents, topic_history, created, ctor_exc,
                 callVars, lookup, clock>>

\* one iteration of the loop of _load_agents
load_agents_create ==
  /\ pc = "loop"
  /\ pending # << >>
  /\ LET agent_config == Head(pending)
         name == agent_config.name
         system_message == agent_config.system_message
     IN  agents' = RegistryPut(agents, name,
                               ConversableAgent(name, system_message, llm_config[1]))
  /\ created' = created + 1
  /\ pending' = Tail(pending)
  /\ UNCHANGED <<envVars, pc, llm_config, topic_history, file_read, ctor_exc,
                 callVars, lookup, clock>>

\* the loop is exhausted: _load_agents and __init__ return
load_agents_done ==
  /\ pc = "loop"
  /\ pending = << >>
  /\ pc' = "ready"
  /\ UNCHANGED <<envVars, ctorVars, topic_history, callVars, lookup, clock>>

(***************************************************************************)
(* initiate_conversation under @backoff.on_exception(expo, Exception, 3).  *)
(***************************************************************************)
\* the caller calls manager.initiate_conversation(...): backoff's wrapper starts
initiate_conversation(initiator_name, recipient_name, initial_message) ==
  /\ pc = "ready"
  /\ Len(topic_history) + max_tries <= MaxLog
  /\ call' = [initiator_name |-> initiator_name, recipient_name |-> recipient_name,
              initial_message |-> initial_message, max_turns |-> default_max_turns]
  /\ tries' = 0
  /\ checks' = 0
  /\ slept' = << >>
  /\ caught' = NoExc
  /\ result' = None
  /\ log_start' = topic_history
  /\ chat_start' = Len(chat_log)
  /\ chat_outcomes' = << >>
  /\ outcome' = NoOutcome
  /\ lookup' = None
  /\ pc' = "wrapper"
  /\ UNCHANGED <<envVars, ctorVars, topic_history, chat_log, clock>>

\* backoff's loop: tries += 1, then the decorated function is called
backoff_attempt ==
  /\ pc = "wrapper"
  /\ tries' = tries + 1
  /\ pc' = "check"
  /\ UNCHANGED <<envVars, ctorVars, topic_history, call, checks, slept, caught,
                 result, log_start, chat_start, chat_log, chat_outcomes, outcome,
                 lookup, clock>>

\* the name condition holds: raise KeyError
\* faulty variant: the record is appended before the condition raises
check_names_raise_AfterAppend ==
  /\ pc = "check"
  /\ NameNotFound(agents, call.initiator_name, call.recipient_name)
  /\ checks' = checks + 1
  /\ topic_history' = Append(topic_history,
                             TopicRecord(call.initiator_name, call.recipient_name,
                                         call.initial_message, clock + 1))
  /\ clock' = clock + 1
  /\ caught' = Exc("KeyError", <<"Initiator or recipient agent not found">>, 0)
  /\ pc' = "caught"
  /\ UNCHANGED <<envVars, ctorVars, call, tries, slept, result, log_start,
                 chat_start, chat_log, chat_outcomes, outcome, lookup>>
check_names_raise ==
  /\ pc = "check"
  /\ NameNotFound(agents, call.initiator_name, call.recipient_name)
  /\ checks' = checks + 1
  /\ caught' = Exc("KeyError", <<"Initiator or recipient agent not found">>, 0)
  /\ pc' = "caught"
  /\ UNCHANGED <<envVars, ctorVars, topic_history, call, tries, slept, result,
                 log_start, chat_start, chat_log, chat_outcomes, outcome, lookup,
                 clock>>

\* the name condition is false: the body goes on
check_names_pass ==
  /\ pc = "check"
  /\ ~NameNotFound(agents, call.initiator_name, call.recipient_name)
  /\ checks' = checks + 1
  /\ pc' = "append"
  /\ UNCHANGED <<envVars, ctorVars, topic_history, call, tries, slept, caught,
                 result, log_start, chat_start, chat_log, chat_outcomes, outcome,
                 lookup, clock>>

\* the two registry lookups and self.topic_history.append({...})
\* faulty variant: the record is appended on the first attempt only
append_topic_FirstAttemptOnly ==
  /\ pc = "append"
  /\ call.initiator_name \in DOMAIN agents
  /\ call.recipient_name \in DOMAIN agents
  /\ topic_history' = IF tries = 1
                      THEN Append(topic_history,
                                  TopicRecord(call.initiator_name, call.recipient_name,
                                              call.initial_message, clock + 1))
                      ELSE topic_history
  /\ clock' = IF tries = 1 THEN clock + 1 ELSE clock
  /\ pc' = "chat"
  /\ UNCHANGED <<envVars, ctorVars, callVars, lookup>>
append_topic ==
  /\ pc = "append"
  /\ call.initiator_name \in DOMAIN agents
  /\ call.recipient_name \in DOMAIN agents
  /\ topic_history' = Append(topic_history,
                             TopicRecord(call.initiator_name, call.recipient_name,
                                         call.initial_message, clock + 1))
  /\ clock' = clock + 1
  /\ pc' = "chat"
  /\ UNCHANGED <<envVars, ctorVars, callVars, lookup>>

ChatArgs ==
  [initiator |-> agents[call.initiator_name].name,
   recipient |-> agents[call.recipient_name].name,
   message |-> call.initial_message,
   max_turns |-> call.max_turns,
   summary_method |-> "reflection_with_llm",
   summary_prompt |-> "Summarize the conversation"]

\* initiator.initiate_chat(...) returns a result
initiate_chat_returns ==
  /\ pc = "chat"
  /\ chat_log' = Append(chat_log, ChatArgs)
  /\ chat_outcomes' = Append(chat_outcomes, "ok")
  /\ result' = Some(Len(chat_log) + 1)
  /\ pc' = "return"
  /\ UNCHANGED <<envVars, ctorVars, topic_history, call, tries, checks, slept,
                 caught, log_start, chat_start, outcome, lookup, clock>>

\* initiator.initiate_chat(...) raises
initiate_chat_raises ==
  /\ pc = "chat"
  /\ chat_log' = Append(chat_log, ChatArgs)
  /\ chat_outcomes' = Append(chat_outcomes, "fail")
  /\ caught' = RemoteError(Len(chat_log) + 1)
  /\ pc' = "caught"
  /\ UNCHANGED <<envVars, ctorVars, topic_history, call, tries, checks, slept,
                 result, log_start, chat_start, outcome, lookup, clock>>

\* return result: backoff's wrapper returns it to the caller
\* faulty variant: the result is dropped, None is returned
return_result_None ==
  /\ pc = "return"
  /\ outcome' = Returned(None)
  /\ pc' = "ready"
  /\ UNCHANGED <<envVars, ctorVars, topic_history, call, tries, checks, slept,
                 caught, result, log_start, chat_start, chat_log, chat_outcomes,
                 lookup, clock>>
return_result ==
  /\ pc = "return"
  /\ outcome' = Returned(result)
  /\ pc' = "ready"
  /\ UNCHANGED <<envVars, ctorVars, topic_history, call, tries, checks, slept,
                 caught, result, log_start, chat_start, chat_log, chat_outcomes,
                 lookup, clock>>

\* backoff caught an exception and tries < max_tries: sleep, then loop
backoff_retry ==
  /\ pc = "caught"
  /\ ~MaxTriesExceeded(tries)
  /\ slept' = Append(slept, Expo(tries))
  /\ pc' = "wrapper"
  /\ UNCHANGED <<envVars, ctorVars, topic_history, call, tries, checks, caught,
                 result, log_start, chat_start, chat_log, chat_outcomes, outcome,
                 lookup, clock>>

\* backoff caught an exception and tries == max_tries: re-raise it
backoff_giveup ==
  /\ pc = "caught"
  /\ MaxTriesExceeded(tries)
  /\ outcome' = Raised(caught)
  /\ pc' = "ready"
  /\ UNCHANGED <<envVars, ctorVars, topic_history, call, tries, checks, slept,
                 caught, result, log_start, chat_start, chat_log, chat_outcomes,
                 lookup, clock>>

(***************************************************************************)
(* get_last_topic.                                                         *)
(***************************************************************************)
get_last_topic_call(agent_name) ==
  /\ pc = "ready"
  /\ lookup' = Some([name |-> agent_name, value |-> get_last_topic(topic_history, agent_name)])
  /\ UNCHANGED <<envVars, pc, ctorVars, topic_history, callVars, clock>>

Next ==
  \/ Construct
  \/ configure_llm
  \/ load_agents_missing
  \/ load_agents_invalid
  \/ load_agents_empty
  \/ load_agents_parsed
  \/ load_agents_create
  \/ load_agents_done
  \/ \E i \in Names, r \in Names, m \in Messages : initiate_conversation(i, r, m)
  \/ backoff_attempt
  \/ check_names_raise
  \/ check_names_pass
  \/ append_topic
  \/ initiate_chat_returns
  \/ initiate_chat_raises
  \/ return_result
  \/ backoff_retry
  \/ backoff_giveup
  \/ \E n \in Names : get_last_topic_call(n)

Spec == Init /\ [][Next]_vars

(***************************************************************************)
(* get_last_topic as a function of the topic log: the log is any sequence  *)
(* of records, as when a caller assigns manager.topic_history directly.    *)
(***************************************************************************)
TopicRecords == [initiator : Names, recipient : Names, topic : Messages, timestamp : {0}]

InitLookup ==
  /\ env_key = Some("test_gemini_key")
  /\ config_path = "config.yaml"
  /\ file = NoAgentsKey
  /\ pc = "ready"
  /\ llm_config = Some(LlmConfig(get_gemini_api_key(env_key)))
  /\ agents = << >>
  /\ topic_history \in SeqsUpTo(TopicRecords, MaxHist)
  /\ pending = << >>
  /\ created = 0
  /\ file_read = TRUE
  /\ ctor_exc = NoExc
  /\ call = NoCall
  /\ tries = 0
  /\ checks = 0
  /\ slept = << >>
  /\ caught = NoExc
  /\ result = None
  /\ log_start = << >>
  /\ chat_start = 0
  /\ chat_log = << >>
  /\ chat_outcomes = << >>
  /\ outcome = NoOutcome
  /\ lookup = None
  /\ clock = 0

NextLookup == \E n \in Names : get_last_topic_call(n)

SpecLookup == InitLookup /\ [][NextLookup]_vars

(***************************************************************************)
(* Properties.                                                             *)
(***************************************************************************)
Constructing == pc \in {"new", "configure_llm", "load_agents", "loop"}
Constructed == ~Constructing /\ pc # "failed"
\* an initiate_conversation call has ended and the caller has its outcome
CallEnded == pc = "ready" /\ outcome.kind # "none"
CallNamesValid ==
  call.initiator_name \in DOMAIN agents /\ call.recipient_name \in DOMAIN agents
Range(s) == {s[i] : i \in 1..Len(s)}
IsPrefix(s, t) == Len(s) <= Len(t) /\ SubSeq(t, 1, Len(s)) = s

\* C1: a call with both names registered grows the topic log by exactly one
\* record over the whole call, whatever the remote exchange does.
C1_OneRecordPerCall ==
  (CallEnded /\ CallNamesValid) => Len(topic_history) = Len(log_start) + 1

\* C2: a call with an unregistered initiator or recipient ends with KeyError,
\* leaves the topic log as it was and never invokes the remote exchange.
C2_UnknownAgent ==
  (call # NoCall /\ ~CallNamesValid) =>
    /\ topic_history = log_start
    /\ Len(chat_log) = chat_start
    /\ chat_outcomes = << >>
    /\ outcome.kind # "returned"
    /\ CallEnded => /\ outcome.kind = "raised"
                    /\ outcome.exc.type = "KeyError"
                    /\ outcome.exc.msg = <<"Initiator or recipient agent not found">>

C2_Witness ==
  /\ CallEnded
  /\ ~CallNamesValid
  /\ outcome.exc.type = "KeyError"
  /\ topic_history # << >>

\* C3: with both names registered and the remote exchange failing on every
\* attempt, the exchange is invoked exactly 3 times, never a 4th, and the call
\* ends by raising the exception of the last attempt, never by returning.
C3_ThreeAttemptsThenRaise ==
  (call # NoCall /\ CallNamesValid /\ "ok" \notin Range(chat_outcomes)) =>
    /\ Len(chat_outcomes) <= 3
    /\ Len(chat_log) = chat_start + Len(chat_outcomes)
    /\ outcome.kind # "returned"
    /\ CallEnded => /\ Len(chat_outcomes) = 3
                    /\ outcome.kind = "raised"
                    /\ outcome.exc.type = "Exception"
                    /\ outcome.exc.id = chat_start + 3

C3_Witness ==
  /\ CallEnded
  /\ CallNamesValid
  /\ chat_outcomes = <<"fail", "fail", "fail">>
  /\ outcome.kind = "raised"

\* C4: with both names registered, if the remote exchange fails on the first
\* k attempts (k = 1 or 2) and succeeds on attempt k+1, the call makes exactly
\* k+1 attempts, raises nothing and returns the result of attempt k+1.
C4_RetryThenSucceed ==
  \A j \in 2..Len(chat_outcomes) :
    (call # NoCall /\ CallNamesValid /\ chat_outcomes[j] = "ok") =>
      /\ j = Len(chat_outcomes)
      /\ j <= 3
      /\ \A i \in 1..(j - 1) : chat_outcomes[i] = "fail"
      /\ Len(chat_log) = chat_start + j
      /\ outcome.kind # "raised"
      /\ pc \in {"return", "ready"}
      /\ CallEnded => outcome = Returned(Some(chat_start + j))

C4_Witness ==
  /\ CallEnded
  /\ chat_outcomes = <<"fail", "fail", "ok">>
  /\ outcome.kind = "returned"

\* the positions of the log h whose record has agent_name as initiator or recipient
Referencing(h, agent_name) ==
  {i \in 1..Len(h) : h[i].initiator = agent_name \/ h[i].recipient = agent_name}
Highest(S) == CHOOSE i \in S : \A k \in S : k <= i

\* C5: get_last_topic(name) is the topic of the record at the highest position
\* whose initiator or recipient is name, and None exactly when no record
\* references name (so for every name on the empty log); the call changes
\* neither the topic log nor the registry.
C5_LastTopic ==
  /\ [](lookup # None =>
          LET name == lookup[1].name
              value == lookup[1].value
              refs == Referencing(topic_history, name)
          IN  /\ (value = None) <=> (refs = {})
              /\ refs # {} => value = Some(topic_history[Highest(refs)].topic))
  /\ [][lookup' # lookup => (topic_history' = topic_history /\ agents' = agents)]_vars

C5_Witness ==
  /\ lookup # None
  /\ Len(topic_history) = 2
  /\ Referencing(topic_history, lookup[1].name) = {1, 2}
  /\ topic_history[1].topic # topic_history[2].topic

\* C6: a document whose agents list holds N definitions with pairwise distinct
\* names gives N created handles and N registry entries, one under each
\* defined name; a document without the agents key gives an empty registry
\* and no error.
C6_RegistryFromDocument ==
  /\ (file = NoAgentsKey) => (pc # "failed" /\ ctor_exc = NoExc /\ agents = << >>)
  /\ (Constructed /\ file.kind = "doc") =>
       LET defs == IF file.has_agents THEN file.agents ELSE << >>
           N == Len(defs)
       IN  (\A i \in 1..N : \A j \in 1..N : i # j => defs[i].name # defs[j].name) =>
             /\ created = N
             /\ Cardinality(DOMAIN agents) = N
             /\ \A i \in 1..N : /\ defs[i].name \in DOMAIN agents
                                /\ agents[defs[i].name].name = defs[i].name
                                /\ agents[defs[i].name].system_message = defs[i].system_message

C6_Witness ==
  /\ Constructed
  /\ file.has_agents
  /\ Len(file.agents) = 2
  /\ file.agents[1].name # file.agents[2].name
  /\ Cardinality(DOMAIN agents) = 2

\* C7: with the API key absent, construction fails with ValueError at the
\* LLM-configuration step: the configuration file is never read, no agent
\* handle is created, and no manager is produced.
C7_MissingSecretFails ==
  (env_key = None) =>
    /\ ~file_read
    /\ created = 0
    /\ agents = << >>
    /\ ~Constructed
    /\ pc \notin {"new", "configure_llm"} => (pc = "failed" /\ ctor_exc.type = "ValueError")

\* C8: with the key present, a missing configuration resource ends
\* construction with FileNotFoundError whose message names the configured
\* path, an unparsable one with yaml.YAMLError; no agent handle is created.
C8_ResourceErrors ==
  (env_key # None /\ file.kind \in {"missing", "invalid"}) =>
    /\ created = 0
    /\ agents = << >>
    /\ ~Constructed
    /\ pc \notin {"new", "configure_llm", "load_agents"} =>
         /\ pc = "failed"
         /\ file.kind = "missing" =>
              /\ ctor_exc.type = "FileNotFoundError"
              /\ config_path \in Range(ctor_exc.msg)
         /\ file.kind = "invalid" => ctor_exc.type = "YAMLError"

C8_Witness ==
  /\ env_key # None
  /\ pc = "failed"
  /\ ctor_exc.type = "FileNotFoundError"
  /\ config_path = "nonexistent.yaml"

\* C9: a call that fails the name precondition raises KeyError on its first
\* and only attempt: the condition is evaluated once, and the error is not
\* caught, delayed and re-attempted by the retry policy.
C9_PreconditionNotRetried ==
  (call # NoCall /\ ~CallNamesValid) =>
    /\ checks <= 1
    /\ tries <= 1
    /\ slept = << >>

\* C10: every invocation of initiate_chat is immediately preceded, in the
\* same attempt, by the append of a record with the same initiator, recipient
\* and message; between calls the topic log is as long as the list of
\* invocations; records are never modified or removed.
C10_AppendBeforeEveryExchange ==
  /\ [](/\ Len(topic_history) = Len(chat_log) + (IF pc = "chat" THEN 1 ELSE 0)
        /\ \A i \in 1..Len(chat_log) :
             /\ i <= Len(topic_history)
             /\ topic_history[i].initiator = chat_log[i].initiator
             /\ topic_history[i].recipient = chat_log[i].recipient
             /\ topic_history[i].topic = chat_log[i].message)
  /\ [][/\ IsPrefix(topic_history, topic_history')
        /\ chat_log' # chat_log =>
             /\ pc = "chat"
             /\ Len(chat_log') = Len(chat_log) + 1
             /\ Len(topic_history) = Len(chat_log')
             /\ topic_history' = topic_history]_vars

C10_Witness ==
  /\ pc = "ready"
  /\ Len(chat_log) >= 3
  /\ Len(topic_history) = Len(chat_log)
  /\ topic_history[1].topic # topic_history[Len(topic_history)].topic

====
